---------------------------- MODULE Spec2Model ----------------------------
(***************************************************************************)
(* Model of the movie-metadata EDA repository: the cleaning pipeline of    *)
(* EDA.py (load, date normalisation, column pruning, numeric coercion,     *)
(* quantile categorisation, dropna, drop_duplicates, Genre explosion,      *)
(* sample view, save) and the dashboard of App.py (load_data and its eight *)
(* views).                                                                 *)
(*                                                                         *)
(* A CSV file is a header (set of column names) and a sequence of rows of  *)
(* texts; a text is a sequence of characters.  A data frame is a set of    *)
(* columns and a sequence of rows of cells; a cell is missing (NaN/NaT), a *)
(* number, a text or a timestamp.  Numbers are naturals (vote averages are *)
(* in tenths or any fixed unit); quantile edges are kept multiplied by 4   *)
(* so that pandas' linear interpolation is exact.                          *)
(***************************************************************************)
EXTENDS Integers, Sequences, FiniteSets, TLC

VARIABLES
    file,   \* the CSV file the program reads: [hdr, rows]
    df,     \* the data frame the program holds: [cols, rows]
    pc,     \* position in the script
    run,    \* 1: first run of EDA.py, 2: run on its own saved output
    err,    \* "" or the step that raised
    clean,  \* the CSV file the script writes (mymoviedb_clean.csv)
    choice, \* the dashboard's menu choice, 0 before one is made
    prev,   \* history: the frame before the last step
    out1    \* history: the cleaned frame of the first run

vars == <<file, df, pc, run, err, clean, choice, prev, out1>>

----------------------------------------------------------------------------
(* Bounds *)

MaxRows == 3    \* rows of an input CSV file
MaxLen == 5     \* rows of a column handed to categorize_col on its own
MaxVal == 3     \* largest value in such a column

----------------------------------------------------------------------------
(* Cells *)

NaN == [k |-> "nan", n |-> 0, s |-> <<>>]
Num(x) == [k |-> "num", n |-> x, s |-> <<>>]
Str(t) == [k |-> "str", n |-> 0, s |-> t]
\* a timestamp; only its calendar year is observed by the program
Ts(y) == [k |-> "ts", n |-> y, s |-> <<>>]

IsNa(c) == c.k = "nan"

----------------------------------------------------------------------------
(* Texts *)

Digit == <<"0", "1", "2", "3", "4", "5", "6", "7", "8", "9">>

IsDigit(ch) == \E d \in 1..10 : Digit[d] = ch

DigitVal(ch) == (CHOOSE d \in 1..10 : Digit[d] = ch) - 1

IsDigits(t) == Len(t) > 0 /\ \A i \in 1..Len(t) : IsDigit(t[i])

RECURSIVE ParseNat(_)
ParseNat(t) ==
    IF t = <<>> THEN 0
    ELSE 10 * ParseNat(SubSeq(t, 1, Len(t) - 1)) + DigitVal(t[Len(t)])

RECURSIVE ToText(_)
ToText(x) ==
    IF x < 10 THEN <<Digit[x + 1]>>
    ELSE ToText(x \div 10) \o <<Digit[(x % 10) + 1]>>

\* YYYY-MM-DD, the date format of mymoviedb.csv
IsIsoDate(t) ==
    /\ Len(t) = 10
    /\ t[5] = "-"
    /\ t[8] = "-"
    /\ \A i \in {1, 2, 3, 4, 6, 7, 9, 10} : IsDigit(t[i])

YearOf(t) == ParseNat(SubSeq(t, 1, 4))

RECURSIVE SplitComma(_)
\* mutant of Split: the separator is the comma alone
SplitComma(t) ==
    IF \E i \in 1..Len(t) : t[i] = ","
    THEN LET i == CHOOSE j \in 1..Len(t) :
                      /\ t[j] = ","
                      /\ \A h \in 1..(j - 1) : t[h] # ","
         IN <<SubSeq(t, 1, i - 1)>> \o SplitComma(SubSeq(t, i + 1, Len(t)))
    ELSE <<t>>

\* str.split(sep) for the two-character separator ", "
RECURSIVE Split(_)
Split(t) ==
    IF \E i \in 1..(Len(t) - 1) : t[i] = "," /\ t[i + 1] = " "
    THEN LET i == CHOOSE j \in 1..(Len(t) - 1) :
                      /\ t[j] = "," /\ t[j + 1] = " "
                      /\ \A h \in 1..(j - 1) : ~(t[h] = "," /\ t[h + 1] = " ")
         IN <<SubSeq(t, 1, i - 1)>> \o Split(SubSeq(t, i + 2, Len(t)))
    ELSE <<t>>

----------------------------------------------------------------------------
(* pandas conversions *)

EpochYear == 1970

\* pd.to_datetime(errors='coerce'): a text is parsed, a number is a count
\* of nanoseconds since the epoch (every number of the model is far below
\* the nanoseconds of one year), anything unparsable is NaT.
to_datetime(c) ==
    CASE c.k = "str" -> IF IsIsoDate(c.s) THEN Ts(YearOf(c.s)) ELSE NaN
      [] c.k = "num" -> Ts(EpochYear)
      [] c.k = "ts" -> c
      [] OTHER -> NaN

\* Series.dt.year
dt_year(c) == IF c.k = "ts" THEN Num(c.n) ELSE NaN

\* pd.to_numeric(errors='coerce')
to_numeric(c) ==
    CASE c.k = "num" -> c
      [] c.k = "str" -> IF IsDigits(c.s) THEN Num(ParseNat(c.s)) ELSE NaN
      [] OTHER -> NaN

\* astype(str): a missing value becomes the text "nan"
astype_str(c) ==
    CASE c.k = "str" -> c
      [] c.k = "num" -> Str(ToText(c.n))
      [] OTHER -> Str(<<"n", "a", "n">>)

----------------------------------------------------------------------------
(* Frames *)

EmptyFrame == [cols |-> {}, rows |-> <<>>]

NRows(f) == Len(f.rows)

\* df[c] = vals: assign (or add) column c, one cell per row
SetCol(f, c, vals) ==
    [cols |-> f.cols \cup {c},
     rows |-> [i \in 1..Len(f.rows) |->
                 [k \in f.cols \cup {c} |->
                    IF k = c THEN vals[i] ELSE f.rows[i][k]]]]

\* df[c] as a sequence of cells
Column(f, c) == [i \in 1..Len(f.rows) |-> f.rows[i][c]]

\* pd.read_csv: a column whose non-empty texts are all numbers is numeric,
\* any other column keeps its texts; an empty text is a missing value.
read_csv(fl) ==
    LET numeric(c) == \A i \in 1..Len(fl.rows) :
                          fl.rows[i][c] = <<>> \/ IsDigits(fl.rows[i][c])
        cell(c, t) == IF t = <<>> THEN NaN
                      ELSE IF numeric(c) THEN Num(ParseNat(t))
                      ELSE Str(t)
    IN [cols |-> fl.hdr,
        rows |-> [i \in 1..Len(fl.rows) |->
                    [c \in fl.hdr |-> cell(c, fl.rows[i][c])]]]

\* DataFrame.to_csv(index=False)
to_csv(f) ==
    LET text(c) == CASE c.k = "num" -> ToText(c.n)
                     [] c.k = "str" -> c.s
                     [] OTHER -> <<>>
    IN [hdr |-> f.cols,
        rows |-> [i \in 1..Len(f.rows) |->
                    [c \in f.cols |-> text(f.rows[i][c])]]]

----------------------------------------------------------------------------
(* The steps of the cleaning pipeline, as functions of the frame *)

\* EDA.py 30-31 (App.py 20-21)
NormalizeDate(f) ==
    SetCol(f, "Release_Date",
           [i \in 1..NRows(f) |-> dt_year(to_datetime(f.rows[i]["Release_Date"]))])

PruneCols == {"Overview", "Original_Language", "Poster_Url"}

\* df.drop(cols, axis=1, errors='ignore')
DropColumns(f) ==
    [cols |-> f.cols \ PruneCols,
     rows |-> [i \in 1..NRows(f) |->
                 [k \in f.cols \ PruneCols |-> f.rows[i][k]]]]

\* df[c] = pd.to_numeric(df[c], errors='coerce')
CoerceColumn(f, c) ==
    SetCol(f, c, [i \in 1..NRows(f) |-> to_numeric(f.rows[i][c])])

RowHasNa(r) == \E k \in DOMAIN r : IsNa(r[k])

RECURSIVE DropNaRows(_)
DropNaRows(rows) ==
    IF rows = <<>> THEN <<>>
    ELSE LET n == Len(rows)
             front == DropNaRows(SubSeq(rows, 1, n - 1))
         IN IF RowHasNa(rows[n]) THEN front ELSE Append(front, rows[n])

RECURSIVE DropAllNaRows(_)
DropAllNaRows(rows) ==
    IF rows = <<>> THEN <<>>
    ELSE LET n == Len(rows)
             front == DropAllNaRows(SubSeq(rows, 1, n - 1))
         IN IF \A k \in DOMAIN rows[n] : IsNa(rows[n][k])
            THEN front ELSE Append(front, rows[n])

\* mutant of dropna: how='all', a row goes only when every field is missing
dropna_how_all(f) == [f EXCEPT !.rows = DropAllNaRows(f.rows)]

\* df.dropna()
dropna(f) == [f EXCEPT !.rows = DropNaRows(f.rows)]

RECURSIVE DropDuplicateRows(_)
DropDuplicateRows(rows) ==
    IF rows = <<>> THEN <<>>
    ELSE LET n == Len(rows)
             front == DropDuplicateRows(SubSeq(rows, 1, n - 1))
         IN IF \E i \in 1..(n - 1) : rows[i] = rows[n]
            THEN front ELSE Append(front, rows[n])

\* df.drop_duplicates() (keep='first'); reset_index leaves the rows as they are
drop_duplicates(f) == [f EXCEPT !.rows = DropDuplicateRows(f.rows)]

\* one row per element of the list tokens, the other fields copied
RowPerToken(r, tokens) ==
    [j \in 1..Len(tokens) |-> [r EXCEPT !["Genre"] = Str(tokens[j])]]

RECURSIVE ExplodeRows(_)
ExplodeRows(rows) ==
    IF rows = <<>> THEN <<>>
    ELSE LET n == Len(rows)
         IN ExplodeRows(SubSeq(rows, 1, n - 1))
            \o RowPerToken(rows[n], Split(astype_str(rows[n]["Genre"]).s))

\* df['Genre'].astype(str).str.split(', ') and df.explode('Genre')
explode(f) == [f EXCEPT !.rows = ExplodeRows(f.rows)]

----------------------------------------------------------------------------
(* categorize_col *)

Range(q) == {q[i] : i \in 1..Len(q)}

\* the non-missing numbers of a sequence of cells, in order: Series.dropna()
RECURSIVE ValidNums(_)
ValidNums(cells) ==
    IF cells = <<>> THEN <<>>
    ELSE LET n == Len(cells)
             front == ValidNums(SubSeq(cells, 1, n - 1))
         IN IF IsNa(cells[n]) THEN front ELSE Append(front, cells[n].n)

RECURSIVE SortNums(_)
SortNums(q) ==
    IF q = <<>> THEN <<>>
    ELSE LET rest == SortNums(Tail(q))
             x == Head(q)
             k == Cardinality({i \in 1..Len(rest) : rest[i] < x})
         IN SubSeq(rest, 1, k) \o <<x>> \o SubSeq(rest, k + 1, Len(rest))

\* 4 * Series.quantile(j / 4) of the non-empty sorted sequence srt, with
\* pandas' linear interpolation between the two nearest order statistics
Quantile4(srt, j) ==
    LET h == (Len(srt) - 1) * j
        lo == h \div 4
        fr == h % 4
    IN 4 * srt[lo + 1]
       + (IF fr = 0 THEN 0 ELSE fr * (srt[lo + 2] - srt[lo + 1]))

RECURSIVE SortedSeq(_)
\* sorted(...) of a set of numbers
SortedSeq(S) ==
    IF S = {} THEN <<>>
    ELSE LET m == CHOOSE x \in S : \A y \in S : x <= y
         IN <<m>> \o SortedSeq(S \ {m})

\* sorted(valid.quantile([0, 0.25, 0.5, 0.75, 1.0]).unique()), times 4;
\* the quantiles of an empty series are all NaN, a single edge
QuantileEdges(cells) ==
    LET srt == SortNums(ValidNums(cells))
    IN IF srt = <<>> THEN <<NaN>>
       ELSE LET S == {Quantile4(srt, j) : j \in 0..4}
                e == SortedSeq(S)
            IN [i \in 1..Len(e) |-> Num(e[i])]

LabelNotPopular == <<"n", "o", "t", "_", "p", "o", "p", "u", "l", "a", "r">>
LabelBelowAvg == <<"b", "e", "l", "o", "w", "_", "a", "v", "g">>
LabelAverage == <<"a", "v", "e", "r", "a", "g", "e">>
LabelPopular == <<"p", "o", "p", "u", "l", "a", "r">>

Labels == <<LabelNotPopular, LabelBelowAvg, LabelAverage, LabelPopular>>

\* mutant of BinsOf: include_lowest left out
BinsOfOpen(x, edges) ==
    {i \in 1..(Len(edges) - 1) :
        edges[i].n < 4 * x /\ 4 * x <= edges[i + 1].n}

\* the bins of pd.cut(bins=edges, include_lowest=True) that hold the number
\* x: (edges[i], edges[i+1]], the first one closed on the left as well
BinsOf(x, edges) ==
    {i \in 1..(Len(edges) - 1) :
        \/ edges[i].n < 4 * x /\ 4 * x <= edges[i + 1].n
        \/ i = 1 /\ 4 * x = edges[1].n}

\* pd.cut of one cell
cut(c, edges, labels) ==
    IF IsNa(c) \/ BinsOf(c.n, edges) = {} THEN NaN
    ELSE Str(labels[CHOOSE i \in BinsOf(c.n, edges) : TRUE])

\* f"{col}_Category"
CategoryCol(col) ==
    CASE col = "Vote_Average" -> "Vote_Average_Category"
      [] col = "Vote_Count" -> "Vote_Count_Category"
      [] col = "Popularity" -> "Popularity_Category"

\* mutant of categorize_col: two distinct edges count as no variation
categorize_col_two_edges(f, col, labels) ==
    LET f1 == CoerceColumn(f, col)
        edges == QuantileEdges(Column(f1, col))
    IN IF Cardinality(Range(edges)) <= 2 THEN f1
       ELSE SetCol(f1, CategoryCol(col),
                   [i \in 1..NRows(f1) |->
                      cut(f1.rows[i][col], edges,
                          SubSeq(labels, 1, Len(edges) - 1))])

categorize_col(f, col, labels) ==
    LET f1 == CoerceColumn(f, col)
        edges == QuantileEdges(Column(f1, col))
    IN IF Cardinality(Range(edges)) < 2 THEN f1
       ELSE SetCol(f1, CategoryCol(col),
                   [i \in 1..NRows(f1) |->
                      cut(f1.rows[i][col], edges,
                          SubSeq(labels, 1, Len(edges) - 1))])

----------------------------------------------------------------------------
(* Input files *)

Cols ==
    {"Title", "Release_Date", "Vote_Average", "Vote_Count", "Popularity",
     "Genre", "Overview", "Original_Language", "Poster_Url"}

BaseRow ==
    [Title |-> <<"X">>,
     Release_Date |-> <<"2", "0", "2", "0", "-", "0", "5", "-", "0", "1">>,
     Vote_Average |-> <<"5">>,
     Vote_Count |-> <<"1">>,
     Popularity |-> <<"2">>,
     Genre |-> <<"A", ",", " ", "B">>,
     Overview |-> <<"o">>,
     Original_Language |-> <<"e", "n">>,
     Poster_Url |-> <<"u">>]

\* one field of the base row replaced: an unparsable date, another or a
\* non-numeric vote average, a missing vote count, a non-numeric
\* popularity, the same genres in another order, a repeated genre
Alterations ==
    {<<"Release_Date", <<"b", "a", "d">> >>,
     <<"Vote_Average", <<"7">> >>,
     <<"Vote_Average", <<"x">> >>,
     <<"Vote_Count", <<>> >>,
     <<"Popularity", <<"x">> >>,
     <<"Genre", <<"B", ",", " ", "A">> >>,
     <<"Genre", <<"A", ",", " ", "A">> >>}

RawRows == {BaseRow} \cup {[BaseRow EXCEPT ![a[1]] = a[2]] : a \in Alterations}

\* the columns a file may lack: none or any single one
MissingChoices == {{}} \cup {{c} : c \in Cols}

EmptyFile == [hdr |-> {}, rows |-> <<>>]

MakeFile(hdr, rows) ==
    [hdr |-> hdr,
     rows |-> [i \in 1..Len(rows) |-> [c \in hdr |-> rows[i][c]]]]

----------------------------------------------------------------------------
(* EDA.py *)

SampleSize == 5

Abort(step) ==
    /\ pc' = "aborted"
    /\ err' = step

\* line 21
LoadData ==
    /\ pc = "load"
    /\ df' = read_csv(file)
    /\ prev' = df
    /\ pc' = "date"
    /\ UNCHANGED <<file, run, err, clean, choice, out1>>

\* lines 30-31; df['Release_Date'] raises KeyError without the column
DateStep ==
    /\ pc = "date"
    /\ prev' = df
    /\ IF "Release_Date" \in df.cols
       THEN /\ df' = NormalizeDate(df)
            /\ pc' = "prune"
            /\ err' = err
       ELSE /\ df' = df
            /\ Abort("date")
    /\ UNCHANGED <<file, run, clean, choice, out1>>

\* lines 34-39
PruneStep ==
    /\ pc = "prune"
    /\ prev' = df
    /\ df' = DropColumns(df)
    /\ pc' = "types"
    /\ UNCHANGED <<file, run, err, clean, choice, out1>>

\* lines 44-46, in order; the first absent column raises KeyError and the
\* columns before it stay coerced
ConvertTypes ==
    /\ pc = "types"
    /\ prev' = df
    /\ IF "Vote_Average" \notin df.cols
       THEN df' = df /\ Abort("types")
       ELSE IF "Vote_Count" \notin df.cols
       THEN df' = CoerceColumn(df, "Vote_Average") /\ Abort("types")
       ELSE IF "Popularity" \notin df.cols
       THEN /\ df' = CoerceColumn(CoerceColumn(df, "Vote_Average"), "Vote_Count")
            /\ Abort("types")
       ELSE /\ df' = CoerceColumn(CoerceColumn(CoerceColumn(df,
                          "Vote_Average"), "Vote_Count"), "Popularity")
            /\ pc' = "categorize"
            /\ err' = err
    /\ UNCHANGED <<file, run, clean, choice, out1>>

\* lines 69-70
Categorize ==
    /\ pc = "categorize"
    /\ prev' = df
    /\ df' = categorize_col(df, "Vote_Average", Labels)
    /\ pc' = "dropna"
    /\ UNCHANGED <<file, run, err, clean, choice, out1>>

\* line 75
DropNa ==
    /\ pc = "dropna"
    /\ prev' = df
    /\ df' = dropna(df)
    /\ pc' = "dedup"
    /\ UNCHANGED <<file, run, err, clean, choice, out1>>

\* lines 76-79
DropDuplicates ==
    /\ pc = "dedup"
    /\ prev' = df
    /\ df' = drop_duplicates(df)
    /\ pc' = "explode"
    /\ UNCHANGED <<file, run, err, clean, choice, out1>>

\* lines 84-89
ExplodeGenre ==
    /\ pc = "explode"
    /\ prev' = df
    /\ df' = IF "Genre" \in df.cols THEN explode(df) ELSE df
    /\ out1' = IF run = 1 THEN df' ELSE out1
    /\ pc' = "sample"
    /\ UNCHANGED <<file, run, err, clean, choice>>

\* lines 94-97; df.sample(5) raises ValueError when the frame has fewer
\* than 5 rows (replace=False)
SampleView ==
    /\ pc = "sample"
    /\ IF NRows(df) = 0 \/ df.cols = {}
       THEN pc' = "plots" /\ err' = err
       ELSE IF NRows(df) < SampleSize
       THEN Abort("sample")
       ELSE pc' = "plots" /\ err' = err
    /\ UNCHANGED <<file, df, run, clean, choice, prev, out1>>

\* lines 102-196: the charts read the frame; df['Genre'] (line 106) raises
\* KeyError without the column, and the plotting libraries may or may not
\* accept an empty frame
Visualizations ==
    /\ pc = "plots"
    /\ \/ /\ "Genre" \in df.cols
          /\ pc' = "save"
          /\ err' = err
       \/ /\ "Genre" \notin df.cols \/ NRows(df) = 0
          /\ Abort("plots")
    /\ UNCHANGED <<file, df, run, clean, choice, prev, out1>>

\* lines 201-202
SaveCsv ==
    /\ pc = "save"
    /\ clean' = to_csv(df)
    /\ pc' = "saved"
    /\ UNCHANGED <<file, df, run, err, choice, prev, out1>>

\* the script is run once more, on the file it wrote
Rerun ==
    /\ pc = "saved"
    /\ run = 1
    /\ file' = clean
    /\ run' = 2
    /\ df' = EmptyFrame
    /\ prev' = EmptyFrame
    /\ pc' = "load"
    /\ UNCHANGED <<err, clean, choice, out1>>

----------------------------------------------------------------------------
(* App.py *)

\* lines 18-30: no column is pruned, Vote_Average is neither coerced nor
\* categorised, no row is dropped
load_data(fl) ==
    LET f0 == NormalizeDate(read_csv(fl))
        f1 == CoerceColumn(CoerceColumn(f0, "Vote_Count"), "Popularity")
    IN IF "Genre" \in f1.cols THEN explode(f1) ELSE f1

RECURSIVE DropNaSubset(_, _)
\* dropna(subset=[c])
DropNaSubset(rows, c) ==
    IF rows = <<>> THEN <<>>
    ELSE LET n == Len(rows)
             front == DropNaSubset(SubSeq(rows, 1, n - 1), c)
         IN IF IsNa(rows[n][c]) THEN front ELSE Append(front, rows[n])

\* lines 84-91: the view assigns to the loaded frame's Release_Date, adds
\* a Year column and keeps the rows that have a year
ReleaseDateView(f) ==
    LET f1 == SetCol(f, "Release_Date",
                     [i \in 1..NRows(f) |-> to_datetime(f.rows[i]["Release_Date"])])
        f2 == SetCol(f1, "Year",
                     [i \in 1..NRows(f1) |-> dt_year(f1.rows[i]["Release_Date"])])
    IN [f2 EXCEPT !.rows = DropNaSubset(f2.rows, "Year")]

\* line 32, df = load_data()
AppLoad ==
    /\ pc = "app_load"
    /\ df' = load_data(file)
    /\ prev' = df
    /\ pc' = "menu"
    /\ UNCHANGED <<file, run, err, clean, choice, out1>>

\* a view that only reads the frame
Render(n) ==
    /\ choice' = n
    /\ prev' = df
    /\ df' = df
    /\ pc' = "rendered"
    /\ UNCHANGED <<file, run, err, clean, out1>>

\* lines 60-65
DatasetOverview ==
    /\ pc = "menu"
    /\ Render(1)

\* lines 68-78
GenreDistribution ==
    /\ pc = "menu"
    /\ Render(2)

\* lines 80-106
ReleaseDateDistribution ==
    /\ pc = "menu"
    /\ choice' = 3
    /\ prev' = df
    /\ df' = ReleaseDateView(df)
    /\ pc' = "rendered"
    /\ UNCHANGED <<file, run, err, clean, out1>>

\* lines 110-115
TopGenres ==
    /\ pc = "menu"
    /\ Render(4)

\* lines 118-125
PopularityVsVoteCount ==
    /\ pc = "menu"
    /\ Render(5)

\* lines 128-140
PopularityShare ==
    /\ pc = "menu"
    /\ Render(6)

\* lines 143-150
HighestLowest ==
    /\ pc = "menu"
    /\ Render(7)

\* lines 153-158
CorrelationHeatmap ==
    /\ pc = "menu"
    /\ Render(8)

\* a click in the sidebar: Streamlit runs App.py again from the top
Interact ==
    /\ pc = "rendered"
    /\ pc' = "app_load"
    /\ df' = EmptyFrame
    /\ prev' = EmptyFrame
    /\ choice' = 0
    /\ UNCHANGED <<file, run, err, clean, out1>>

\* lines 30-87 of EDA.py as one function, for a frame that has every column
CleanedDataset(f) ==
    LET f1 == DropColumns(NormalizeDate(f))
        f2 == CoerceColumn(CoerceColumn(CoerceColumn(f1,
                  "Vote_Average"), "Vote_Count"), "Popularity")
        f3 == categorize_col(f2, "Vote_Average", Labels)
    IN explode(drop_duplicates(dropna(f3)))

Init ==
    /\ \E n \in 0..MaxRows, m \in MissingChoices :
          \E rows \in [1..n -> RawRows] : file = MakeFile(Cols \ m, rows)
    /\ df = EmptyFrame
    /\ pc = "load"
    /\ run = 1
    /\ err = ""
    /\ clean = EmptyFile
    /\ choice = 0
    /\ prev = EmptyFrame
    /\ out1 = EmptyFrame

Next ==
    \/ LoadData
    \/ DateStep
    \/ PruneStep
    \/ ConvertTypes
    \/ Categorize
    \/ DropNa
    \/ DropDuplicates
    \/ ExplodeGenre
    \/ SampleView
    \/ Visualizations
    \/ SaveCsv
    \/ Rerun

Spec == Init /\ [][Next]_vars

InitApp ==
    /\ \E n \in 0..MaxRows :
          \E rows \in [1..n -> RawRows] : file = MakeFile(Cols, rows)
    /\ df = EmptyFrame
    /\ pc = "app_load"
    /\ run = 1
    /\ err = ""
    /\ clean = EmptyFile
    /\ choice = 0
    /\ prev = EmptyFrame
    /\ out1 = EmptyFrame

NextApp ==
    \/ AppLoad
    \/ DatasetOverview
    \/ GenreDistribution
    \/ ReleaseDateDistribution
    \/ TopGenres
    \/ PopularityVsVoteCount
    \/ PopularityShare
    \/ HighestLowest
    \/ CorrelationHeatmap
    \/ Interact

SpecApp == InitApp /\ [][NextApp]_vars

\* a frame of the single column Vote_Average
ColumnFrame(cells) ==
    [cols |-> {"Vote_Average"},
     rows |-> [i \in 1..Len(cells) |-> [c \in {"Vote_Average"} |-> cells[i]]]]

OneToTen == ColumnFrame([i \in 1..10 |-> Num(i)])

\* categorize_col on its own: a coerced column of up to MaxLen cells, each
\* missing or a number of 1..MaxVal, or the column 1..10
InitCat ==
    /\ \/ \E n \in 0..MaxLen :
             \E cells \in [1..n -> {NaN} \cup {Num(v) : v \in 1..MaxVal}] :
                df = ColumnFrame(cells)
       \/ df = OneToTen
    /\ file = EmptyFile
    /\ pc = "categorize"
    /\ run = 1
    /\ err = ""
    /\ clean = EmptyFile
    /\ choice = 0
    /\ prev = EmptyFrame
    /\ out1 = EmptyFrame

NextCat == Categorize

SpecCat == InitCat /\ [][NextCat]_vars

----------------------------------------------------------------------------
(* Properties *)

\* the script holds its cleaned dataset: every step through the Genre
\* explosion has run (the sample view or the charts may have failed since)
Cleaned ==
    \/ pc \in {"sample", "plots", "save", "saved"}
    \/ pc = "aborted" /\ err \in {"sample", "plots"}

NoMissing(f) ==
    \A i \in 1..NRows(f) : \A c \in f.cols : ~IsNa(f.rows[i][c])

NoDuplicates(f) ==
    \A i, j \in 1..NRows(f) : i # j => f.rows[i] # f.rows[j]

\* C1: running the pipeline on its own cleaned output yields the same rows
\* and field values as the first run.
PipelineIdempotent == (run = 2 /\ Cleaned) => df = out1

\* C2: the cleaned output holds no two rows that agree on every field.
CleanedHasNoDuplicates == Cleaned => NoDuplicates(df)

NumericCols == {"Vote_Average", "Vote_Count", "Popularity"}

\* row j of the frame read from the file has an unparsable date, a
\* non-numeric vote or popularity value, or a missing field
BadInput(raw, j) ==
    LET r == raw.rows[j]
    IN \/ \E c \in raw.cols : IsNa(r[c])
       \/ r["Release_Date"].k = "str" /\ ~IsIsoDate(r["Release_Date"].s)
       \/ \E c \in NumericCols : r[c].k = "str" /\ ~IsDigits(r[c].s)

\* the cleaned row r carries the title, the numbers and one genre of the
\* input row j
ComesFrom(r, raw, j) ==
    LET q == raw.rows[j]
    IN /\ "Title" \in raw.cols => r["Title"] = q["Title"]
       /\ \A c \in NumericCols :
             r[c].k = "num" /\ q[c].k \in {"num", "str"}
             /\ r[c].n = (IF q[c].k = "num" THEN q[c].n ELSE ParseNat(q[c].s))
       /\ "Genre" \in raw.cols =>
             \E t \in 1..Len(q["Genre"].s) :
                \E u \in t..Len(q["Genre"].s) :
                   r["Genre"] = Str(SubSeq(q["Genre"].s, t, u))

IsSep(t, i) == t[i] = "," /\ t[i + 1] = " "

\* the number of tokens of a text: one more than its separators
TokenCount(t) == 1 + Cardinality({i \in 1..(Len(t) - 1) : IsSep(t, i)})

RECURSIVE Join(_)
\* the tokens joined by ", "
Join(tokens) ==
    IF Len(tokens) = 1 THEN tokens[1]
    ELSE Join(SubSeq(tokens, 1, Len(tokens) - 1))
         \o <<",", " ">> \o tokens[Len(tokens)]

RECURSIVE TokensBefore(_, _)
\* the tokens of the first i rows
TokensBefore(rows, i) ==
    IF i = 0 THEN 0
    ELSE TokensBefore(rows, i - 1) + TokenCount(rows[i]["Genre"].s)

\* C4: a surviving row whose Genre holds N tokens contributes exactly N
\* consecutive rows, one per token in token order, the other fields
\* copied; the output has as many rows as the survivors have tokens.
ExplosionCorrect ==
    (Cleaned /\ "Genre" \in prev.cols) =>
        /\ NRows(df) = TokensBefore(prev.rows, NRows(prev))
        /\ \A i \in 1..NRows(prev) :
              LET n == TokenCount(prev.rows[i]["Genre"].s)
                  at == TokensBefore(prev.rows, i - 1)
                  toks == [t \in 1..n |-> df.rows[at + t]["Genre"].s]
              IN /\ Join(toks) = prev.rows[i]["Genre"].s
                 /\ \A t \in 1..n :
                       /\ TokenCount(toks[t]) = 1
                       /\ df.rows[at + t]["Genre"].k = "str"
                       /\ \A c \in prev.cols \ {"Genre"} :
                             df.rows[at + t][c] = prev.rows[i][c]

\* two survivors, the first of two tokens, exploded
ExplosionCorrectWitness ==
    /\ Cleaned
    /\ "Genre" \in prev.cols
    /\ NRows(prev) >= 2
    /\ TokenCount(prev.rows[1]["Genre"].s) = 2
    /\ NRows(df) > NRows(prev)

\* C5: the script runs through all its cleaning steps for every input,
\* also one that lacks an expected column.
PipelineNeverAborts == ~(pc = "aborted" /\ err \in {"date", "types"})

LabelIndex(c) == CHOOSE i \in 1..Len(Labels) : Labels[i] = c.s

\* the frame just categorised, and the column before the call
JustCategorized == pc = "dropna"

\* C6: when categorisation is not skipped, every non-missing value lies in
\* exactly one bucket between consecutive strictly increasing edges and
\* gets that bucket's label, the minimum gets the first label, labels
\* follow the order of the values, a missing value gets no category, and
\* the values 1..10 realise the four buckets {1,2,3} {4,5} {6,7} {8,9,10}.
BucketEdgePolicy ==
    (JustCategorized /\ "Vote_Average_Category" \in df.cols) =>
        LET v == Column(prev, "Vote_Average")
            cat == Column(df, "Vote_Average_Category")
            edges == QuantileEdges(v)
            rows == 1..Len(v)
            valid == {i \in rows : ~IsNa(v[i])}
        IN /\ \A i \in 1..(Len(edges) - 1) : edges[i].n < edges[i + 1].n
           /\ \A i \in rows \ valid : IsNa(cat[i])
           /\ \A i \in valid :
                 /\ cat[i].k = "str"
                 /\ \E b \in 1..Len(Labels) : Labels[b] = cat[i].s
                 /\ {b \in 1..(Len(edges) - 1) :
                        /\ 4 * v[i].n <= edges[b + 1].n
                        /\ (edges[b].n < 4 * v[i].n
                             \/ (b = 1 /\ edges[b].n = 4 * v[i].n))}
                    = {LabelIndex(cat[i])}
                 /\ (\A j \in valid : v[i].n <= v[j].n)
                       => LabelIndex(cat[i]) = 1
           /\ \A i, j \in valid :
                 v[i].n <= v[j].n => LabelIndex(cat[i]) <= LabelIndex(cat[j])
           /\ prev = OneToTen =>
                 \A i \in rows :
                    LabelIndex(cat[i]) =
                       (IF i <= 3 THEN 1 ELSE IF i <= 5 THEN 2
                        ELSE IF i <= 7 THEN 3 ELSE 4)

\* the column 1..10 categorised into all four labels
BucketEdgePolicyWitness ==
    /\ JustCategorized
    /\ prev = OneToTen
    /\ "Vote_Average_Category" \in df.cols
    /\ {LabelIndex(df.rows[i]["Vote_Average_Category"]) : i \in 1..10} = 1..4

\* the distinct non-missing values of the column before the call
DistinctValues == Range(ValidNums(Column(prev, "Vote_Average")))

\* C7: when the non-missing values of the column are all identical or
\* there are none, fewer than 2 distinct edges exist and categorize_col
\* returns the dataset unchanged, with no category field and without
\* raising; the field is added exactly when 2 distinct edges exist.
DegenerateColumnSkip ==
    JustCategorized =>
        LET edges == QuantileEdges(Column(prev, "Vote_Average"))
        IN /\ err = ""
           /\ Cardinality(DistinctValues) <= 1 =>
                 /\ Cardinality(Range(edges)) < 2
                 /\ df = prev
                 /\ "Vote_Average_Category" \notin df.cols
           /\ ("Vote_Average_Category" \in df.cols) <=>
                 (Cardinality(Range(edges)) >= 2)
           /\ Cardinality(DistinctValues) >= 2 =>
                 "Vote_Average_Category" \in df.cols
           /\ NRows(df) = NRows(prev)
           /\ \A i \in 1..NRows(prev) : \A c \in prev.cols :
                 df.rows[i][c] = prev.rows[i][c]

\* a column of several identical values, left without a category
DegenerateColumnSkipWitness ==
    /\ JustCategorized
    /\ NRows(prev) >= 2
    /\ Cardinality(DistinctValues) = 1
    /\ df = prev

\* C8: the dataset load_data hands to the views is the cleaned output of
\* the script pipeline for the same file.
DashboardServesCleaned ==
    pc = "menu" =>
        /\ df = CleanedDataset(read_csv(file))
        /\ NoMissing(df)
        /\ NoDuplicates(df)
        /\ PruneCols \cap df.cols = {}

\* C9: rendering a view leaves the loaded dataset unchanged.
ViewsAreReadOnly == pc = "rendered" => df = prev

\* C10: the sample view succeeds for a cleaned dataset of every size.
SampleViewNeverFails == ~(pc = "aborted" /\ err = "sample")

=============================================================================
